---- MODULE Spec2Model ----
(***************************************************************************)
(* Model of analizador_etiquetas_aceite_ocr.py: the origin detection       *)
(* engine (regular expressions, splitting, normalisation), the file code   *)
(* extraction and the batch run procesar_carpeta / generar_csv / ejecutar. *)
(*                                                                         *)
(* A text is a TLA+ string; Chars turns it into the sequence of its        *)
(* characters (one-character strings), on which the regular expressions    *)
(* are run by a backtracking matcher with Python's priority order.         *)
(***************************************************************************)
EXTENDS Integers, Sequences, FiniteSets, TLC

VARIABLES
    pc,               \* position of the running operation
    texto,            \* detectar_origenes: its argument
    origenes,         \* detectar_origenes: the set of labels built so far
    i_patron,         \* detectar_origenes: index of the next pattern of patrones_origen
    matches,          \* detectar_origenes: the groups of each match of the pattern just scanned
    nombre_archivo,   \* extraer_codigo_archivo: its argument
    codigo,           \* extraer_codigo_archivo: its result
    existe,           \* whether carpeta_pdfs exists
    case_sensitive,   \* whether the platform matches file names case-sensitively
    carpeta,          \* the names of the files in carpeta_pdfs
    archivos_pdf,     \* procesar_carpeta: the sorted listing being looped over
    i_pdf,            \* procesar_carpeta: index of the current pdf_path
    texto_normal,     \* procesar_carpeta: text of the current document, direct extraction
    texto_ocr,        \* procesar_carpeta: text of the current document, OCR
    resultados,       \* procesar_carpeta: the records appended so far
    avisos,           \* the warnings printed by the extraction functions
    csv               \* the tables written to archivo_salida, each a sequence of rows

vars == <<pc, texto, origenes, i_patron, matches, nombre_archivo, codigo, existe, case_sensitive,
          carpeta, archivos_pdf, i_pdf, texto_normal, texto_ocr, resultados, avisos, csv>>

varsDetectar == <<texto, origenes, i_patron, matches>>
varsCodigo == <<nombre_archivo, codigo>>
varsCarpeta == <<existe, case_sensitive, carpeta, archivos_pdf, i_pdf, texto_normal, texto_ocr,
                 resultados, avisos, csv>>

----------------------------------------------------------------------------
(* Characters and strings                                                  *)

Chars(s) == [i \in 1..Len(s) |-> SubSeq(s, i, i)]

\* "".join(cs)
RECURSIVE Join(_)
Join(cs) ==
    IF cs = <<>> THEN ""
    ELSE IF Len(cs) = 1 THEN cs[1]
    ELSE LET h == Len(cs) \div 2
         IN  Join(SubSeq(cs, 1, h)) \o Join(SubSeq(cs, h + 1, Len(cs)))

CharSet(s) == {SubSeq(s, i, i) : i \in 1..Len(s)}

UpperLetters == "ABCDEFGHIJKLMNOPQRSTUVWXYZÁÉÍÓÚÑ"
LowerLetters == "abcdefghijklmnopqrstuvwxyzáéíóúñ"
Digits == CharSet("0123456789")
Whitespace == {" ", "\n"}

UpperSet == CharSet(UpperLetters)
LowerSet == CharSet(LowerLetters)

IsUpper(c) == c \in UpperSet
IsLower(c) == c \in LowerSet
IsCased(c) == IsUpper(c) \/ IsLower(c)

IndexIn(c, s) == CHOOSE i \in 1..Len(s) : SubSeq(s, i, i) = c

ToLower == [c \in UpperSet |-> SubSeq(LowerLetters, IndexIn(c, UpperLetters), IndexIn(c, UpperLetters))]
ToUpper == [c \in LowerSet |-> SubSeq(UpperLetters, IndexIn(c, LowerLetters), IndexIn(c, LowerLetters))]

\* str.lower() and str.upper() on one character
LowerChar(c) == IF IsUpper(c) THEN ToLower[c] ELSE c
UpperChar(c) == IF IsLower(c) THEN ToUpper[c] ELSE c

\* str.lower() on a sequence of characters
Lower(cs) == [i \in 1..Len(cs) |-> LowerChar(cs[i])]

\* str.title(): a cased character is upper case when it follows an uncased
\* character (or starts the string) and lower case when it follows a cased one
Title(cs) ==
    [i \in 1..Len(cs) |->
        IF i > 1 /\ IsCased(cs[i - 1]) THEN LowerChar(cs[i]) ELSE UpperChar(cs[i])]

\* str.strip(): drop leading and trailing whitespace
RECURSIVE LStrip(_)
LStrip(cs) == IF cs # <<>> /\ Head(cs) \in Whitespace THEN LStrip(Tail(cs)) ELSE cs

RECURSIVE RStrip(_)
RStrip(cs) ==
    IF cs # <<>> /\ cs[Len(cs)] \in Whitespace THEN RStrip(SubSeq(cs, 1, Len(cs) - 1)) ELSE cs

Strip(cs) == RStrip(LStrip(cs))

\* re.sub(r'\d+', '', pais): every digit is removed
QuitarNumeros(cs) == SelectSeq(cs, LAMBDA c : c \notin Digits)

\* the concatenation of a sequence of sequences
RECURSIVE Flatten(_)
Flatten(ss) ==
    IF ss = <<>> THEN <<>>
    ELSE IF Len(ss) = 1 THEN ss[1]
    ELSE LET h == Len(ss) \div 2
         IN  Flatten(SubSeq(ss, 1, h)) \o Flatten(SubSeq(ss, h + 1, Len(ss)))

----------------------------------------------------------------------------
(* Regular expressions: abstract syntax                                    *)

Chr(c) == [t |-> "chr", c |-> c]
Cls(S) == [t |-> "set", s |-> S]
Dot == [t |-> "any"]
Cat(rs) == [t |-> "cat", rs |-> rs]
Alt(rs) == [t |-> "alt", rs |-> rs]
Grp(n, r) == [t |-> "grp", n |-> n, r |-> r]
Rep(r, min, max, greedy) == [t |-> "rep", r |-> r, min |-> min, max |-> max, greedy |-> greedy]

Inf == -1
Plus(r) == Rep(r, 1, Inf, TRUE)
Star(r) == Rep(r, 0, Inf, TRUE)
LazyStar(r) == Rep(r, 0, Inf, FALSE)
Opt(r) == Rep(r, 0, 1, TRUE)
Times(r, n) == Rep(r, n, n, TRUE)
Str(s) == [t |-> "str", cs |-> Chars(s)]
Words(ws) == Alt([i \in 1..Len(ws) |-> Str(ws[i])])

S1 == Plus(Cls(Whitespace))
S0 == Star(Cls(Whitespace))

\* number of capture groups a pattern may have
MaxGroups == 2
NoGroups == [g \in 1..MaxGroups |-> <<>>]

----------------------------------------------------------------------------
(* Regular expressions: backtracking matcher                               *)

\* one character against a literal or a class; ic is re.IGNORECASE
ChrEq(c, d, ic) == IF ic THEN LowerChar(c) = LowerChar(d) ELSE c = d
InCls(c, S, ic) == c \in S \/ (ic /\ (LowerChar(c) \in S \/ UpperChar(c) \in S))

\* whether the one-character pattern r (a literal, a class or the dot) takes c
One(r, c, ic) ==
    CASE r.t = "chr" -> ChrEq(c, r.c, ic)
      [] r.t = "set" -> InCls(c, r.s, ic)
      [] r.t = "any" -> c # "\n"

\* a repetition of a one-character pattern: it can take any count from r.min
\* up to the length of the run of characters the pattern takes (and r.max),
\* the longest first when greedy, the shortest first when lazy
RxRun(r, s, i, g, ic) ==
    LET stops == {j \in i..Len(s) : ~One(r.r, s[j], ic)} \cup {Len(s) + 1}
        run == (CHOOSE j \in stops : \A j2 \in stops : j <= j2) - i
        most == IF r.max # Inf /\ r.max < run THEN r.max ELSE run
    IN  IF most < r.min THEN <<>>
        ELSE [c \in 1..(most - r.min + 1) |->
                [pos |-> i + (IF r.greedy THEN most - c + 1 ELSE r.min + c - 1), grp |-> g]]

RECURSIVE RxMatch(_, _, _, _, _)
RECURSIVE RxCat(_, _, _, _, _, _)
RECURSIVE RxRep(_, _, _, _, _, _)

\* All the ways r matches s from position i, in the order the backtracking
\* engine tries them: a sequence of [pos: position after the match,
\* grp: capture groups as <<start, end>> or <<>> when not set].
RxMatch(r, s, i, g, ic) ==
    CASE r.t \in {"chr", "set", "any"} ->
            IF i <= Len(s) /\ One(r, s[i], ic) THEN <<[pos |-> i + 1, grp |-> g]>> ELSE <<>>
      [] r.t = "str" ->
            IF /\ i + Len(r.cs) - 1 <= Len(s)
               /\ \A j \in 1..Len(r.cs) : ChrEq(s[i + j - 1], r.cs[j], ic)
            THEN <<[pos |-> i + Len(r.cs), grp |-> g]>> ELSE <<>>
      [] r.t = "cat" -> RxCat(r.rs, 1, s, i, g, ic)
      [] r.t = "alt" -> Flatten([a \in 1..Len(r.rs) |-> RxMatch(r.rs[a], s, i, g, ic)])
      [] r.t = "grp" ->
            LET ms == RxMatch(r.r, s, i, g, ic)
            IN  [m \in 1..Len(ms) |->
                    [pos |-> ms[m].pos, grp |-> [ms[m].grp EXCEPT ![r.n] = <<i, ms[m].pos>>]]]
      [] r.t = "rep" ->
            IF r.r.t \in {"chr", "set", "any"} THEN RxRun(r, s, i, g, ic)
            ELSE RxRep(r, 0, s, i, g, ic)

RxCat(rs, n, s, i, g, ic) ==
    IF n > Len(rs) THEN <<[pos |-> i, grp |-> g]>>
    ELSE LET ms == RxMatch(rs[n], s, i, g, ic)
         IN  Flatten([m \in 1..Len(ms) |-> RxCat(rs, n + 1, s, ms[m].pos, ms[m].grp, ic)])

RxRep(r, count, s, i, g, ic) ==
    LET more == IF r.max # Inf /\ count >= r.max THEN <<>>
                ELSE LET ms == SelectSeq(RxMatch(r.r, s, i, g, ic), LAMBDA m : m.pos > i)
                     IN  Flatten([m \in 1..Len(ms) |-> RxRep(r, count + 1, s, ms[m].pos, ms[m].grp, ic)])
        stop == IF count >= r.min THEN <<[pos |-> i, grp |-> g]>> ELSE <<>>
    IN  IF r.greedy THEN more \o stop ELSE stop \o more

\* the match object: span and groups of the first way r matches at i
MatchAt(r, s, i, ic) ==
    LET ms == RxMatch(r, s, i, NoGroups, ic)
    IN  IF ms = <<>> THEN <<>>
        ELSE <<[start |-> i, pos |-> ms[1].pos, grp |-> ms[1].grp]>>

\* the matches of ms, in order, that start at or after from and do not overlap
RECURSIVE NonOverlapping(_, _)
NonOverlapping(ms, from) ==
    IF ms = <<>> THEN <<>>
    ELSE IF Head(ms).start < from THEN NonOverlapping(Tail(ms), from)
    ELSE <<Head(ms)>> \o NonOverlapping(Tail(ms),
                                        IF Head(ms).pos > Head(ms).start THEN Head(ms).pos
                                        ELSE Head(ms).start + 1)

\* re.finditer: the non-overlapping matches of r in s, scanning left to right
\* from position i; the scan resumes where the previous match ended
FindIter(r, s, i, ic) ==
    NonOverlapping(Flatten([a \in 1..(Len(s) + 1) |-> MatchAt(r, s, a, ic)]), i)

\* match.group(n): the captured text, <<>> when the group did not take part
Group(m, s, n) == IF m.grp[n] = <<>> THEN <<>> ELSE SubSeq(s, m.grp[n][1], m.grp[n][2] - 1)

\* match.lastindex: the highest group that took part, 0 for None (no pattern
\* here nests groups, so the last group closed is the highest one set)
LastIndex(m) ==
    IF \A n \in 1..MaxGroups : m.grp[n] = <<>> THEN 0
    ELSE CHOOSE n \in 1..MaxGroups :
            m.grp[n] # <<>> /\ \A n2 \in (n + 1)..MaxGroups : m.grp[n2] = <<>>

----------------------------------------------------------------------------
(* The tables of AnalizadorEtiquetasAceiteOCR.__init__                     *)

AZ == CharSet("ABCDEFGHIJKLMNOPQRSTUVWXYZ")
az == CharSet("abcdefghijklmnopqrstuvwxyz")
\* [A-ZÉÍÓÚÑ], [a-záéíóúñ] and [A-ZÉÍÓÚÑa-záéíóúñ\s,y]
Mayuscula == AZ \cup CharSet("ÉÍÓÚÑ")
Minuscula == az \cup CharSet("áéíóúñ")
ListaPaises == Mayuscula \cup Minuscula \cup Whitespace \cup {",", "y"}

\* words separated by \s+
Phrase(ws) ==
    Cat(Flatten([i \in 1..Len(ws) |-> IF i = 1 THEN <<Str(ws[i])>> ELSE <<S1, Str(ws[i])>>]))

PaisesCodigo ==
    Words(<<"ITALY", "SPAIN", "PORTUGAL", "GREECE", "MOROCCO", "TURKEY", "TUNISIA",
            "CHILE", "ARGENTINA", "FRANCE">>)

\* ([A-Z]+):\s+(ITALY|SPAIN|...|FRANCE)
patron_codigos == Cat(<<Grp(1, Plus(Cls(AZ))), Chr(":"), S1, Grp(2, PaisesCodigo)>>)

patrones_origen ==
    << \* Product\s+of\s+([A-Z][a-z]+(?:\s+[A-Z][a-z]+)?)
       Cat(<<Phrase(<<"Product", "of">>), S1,
             Grp(1, Cat(<<Cls(AZ), Plus(Cls(az)),
                          Opt(Cat(<<S1, Cls(AZ), Plus(Cls(az))>>))>>))>>),
       \* Producto\s+de\s+([A-ZÉÍÓÚÑ][a-záéíóúñ]+(?:\s+[A-ZÉÍÓÚÑ][a-záéíóúñ]+)?)
       Cat(<<Phrase(<<"Producto", "de">>), S1,
             Grp(1, Cat(<<Cls(Mayuscula), Plus(Cls(Minuscula)),
                          Opt(Cat(<<S1, Cls(Mayuscula), Plus(Cls(Minuscula))>>))>>))>>),
       \* Origen:\s*([A-ZÉÍÓÚÑa-záéíóúñ\s,y]+)
       Cat(<<Str("Origen:"), S0, Grp(1, Plus(Cls(ListaPaises)))>>),
       \* ([A-Z]+):\s+(ITALY|SPAIN|...|FRANCE)
       Cat(<<Grp(1, Plus(Cls(AZ))), Chr(":"), S1, Grp(2, PaisesCodigo)>>),
       \* [Cc]ountries?\s+identified\s+in\s+the\s+date\s+code[:\s]+([A-Z\s,;:\.0-9]+)
       Cat(<<Cls({"C", "c"}), Str("ountrie"), Opt(Chr("s")), S1,
             Phrase(<<"identified", "in", "the", "date", "code">>),
             Plus(Cls({":"} \cup Whitespace)),
             Grp(1, Plus(Cls(AZ \cup Whitespace \cup {",", ";", ":", "."} \cup Digits)))>>),
       \* [Aa]ceite\s+(?:de\s+oliva\s+)?de\s+([A-ZÉÍÓÚÑ][a-záéíóúñ]+)
       Cat(<<Cls({"A", "a"}), Str("ceite"), S1,
             Opt(Cat(<<Phrase(<<"de", "oliva">>), S1>>)), Str("de"), S1,
             Grp(1, Cat(<<Cls(Mayuscula), Plus(Cls(Minuscula))>>))>>),
       \* [Mm]ezcla\s+de\s+aceites?\s+de\s+(?:la\s+)?(?:Unión\s+Europea|UE|([A-ZÉÍÓÚÑa-záéíóúñ\s,y]+))
       Cat(<<Cls({"M", "m"}), Phrase(<<"ezcla", "de", "aceite">>), Opt(Chr("s")), S1,
             Str("de"), S1, Opt(Cat(<<Str("la"), S1>>)),
             Alt(<<Phrase(<<"Unión", "Europea">>), Str("UE"),
                   Grp(1, Plus(Cls(ListaPaises)))>>)>>),
       \* [Aa]ceites?\s+de\s+(?:distintos\s+)?(?:orígenes?|países)\s*:?\s*([A-ZÉÍÓÚÑa-záéíóúñ\s,y]+)?
       Cat(<<Cls({"A", "a"}), Str("ceite"), Opt(Chr("s")), S1, Str("de"), S1,
             Opt(Cat(<<Str("distintos"), S1>>)),
             Alt(<<Cat(<<Str("orígene"), Opt(Chr("s"))>>), Str("países")>>),
             S0, Opt(Chr(":")), S0, Opt(Grp(1, Plus(Cls(ListaPaises))))>>),
       \* (?:Made\s+in|Elaborado\s+en|Envasado\s+en|Product\s+of)\s+([A-ZÉÍÓÚÑ][a-záéíóúñ]+)
       Cat(<<Alt(<<Phrase(<<"Made", "in">>), Phrase(<<"Elaborado", "en">>),
                   Phrase(<<"Envasado", "en">>), Phrase(<<"Product", "of">>)>>), S1,
             Grp(1, Cat(<<Cls(Mayuscula), Plus(Cls(Minuscula))>>))>>),
       \* [Aa]ceite\s+.*?\s+(español|española|...|portuguesa)
       Cat(<<Cls({"A", "a"}), Str("ceite"), S1, LazyStar(Dot), S1,
             Grp(1, Words(<<"español", "española", "italiano", "italiana", "griego", "griega",
                            "tunecino", "marroquí", "portugués", "portuguesa">>))>>),
       \* (UE|Unión\s+Europea|No\s+UE|Fuera\s+de\s+la\s+UE|EU\s+Agriculture)
       Grp(1, Alt(<<Str("UE"), Phrase(<<"Unión", "Europea">>), Phrase(<<"No", "UE">>),
                    Phrase(<<"Fuera", "de", "la", "UE">>), Phrase(<<"EU", "Agriculture">>)>>)),
       \* Distributed\s+by.*?(?:in|from)\s+([A-Z][a-z]+)
       Cat(<<Phrase(<<"Distributed", "by">>), LazyStar(Dot), Alt(<<Str("in"), Str("from")>>), S1,
             Grp(1, Cat(<<Cls(AZ), Plus(Cls(az))>>))>>) >>

NumPatrones == Len(patrones_origen)

normalizacion_paises ==
    ("spain" :> "España") @@ ("españa" :> "España") @@ ("español" :> "España") @@
    ("española" :> "España") @@ ("italy" :> "Italia") @@ ("italia" :> "Italia") @@
    ("italiano" :> "Italia") @@ ("italiana" :> "Italia") @@ ("greece" :> "Grecia") @@
    ("grecia" :> "Grecia") @@ ("griego" :> "Grecia") @@ ("griega" :> "Grecia") @@
    ("tunisia" :> "Túnez") @@ ("túnez" :> "Túnez") @@ ("tunecino" :> "Túnez") @@
    ("morocco" :> "Marruecos") @@ ("marruecos" :> "Marruecos") @@ ("marroquí" :> "Marruecos") @@
    ("portugal" :> "Portugal") @@ ("portugués" :> "Portugal") @@ ("portuguesa" :> "Portugal") @@
    ("turkey" :> "Turquía") @@ ("turquía" :> "Turquía") @@ ("turco" :> "Turquía") @@
    ("chile" :> "Chile") @@ ("argentina" :> "Argentina") @@ ("france" :> "Francia") @@
    ("francia" :> "Francia") @@ ("ue" :> "UE (Unión Europea)") @@ ("eu" :> "UE (Unión Europea)") @@
    ("unión europea" :> "UE (Unión Europea)") @@ ("eu agriculture" :> "UE (Unión Europea)") @@
    ("no ue" :> "No UE") @@ ("fuera de la ue" :> "No UE")

paises_validos ==
    {"spain", "españa", "italy", "italia", "greece", "grecia", "portugal", "tunisia", "túnez",
     "morocco", "marruecos", "turkey", "turquía", "chile", "argentina", "usa", "eeuu",
     "france", "francia", "germany", "alemania"}

----------------------------------------------------------------------------
(* detectar_origenes                                                       *)

\* the acceptance gate
Aceptado(pais_limpio) ==
    pais_limpio \in paises_validos \/ pais_limpio \in DOMAIN normalizacion_paises

\* normalizacion_paises.get(pais_limpio, pais.strip().title())
Normalizar(pais_limpio, pais) ==
    IF pais_limpio \in DOMAIN normalizacion_paises THEN normalizacion_paises[pais_limpio]
    ELSE Join(Title(Strip(pais)))

\* the loop over re.findall(patron_codigos, txt, re.IGNORECASE)
OrigenesCodigos(txt) ==
    LET s == Chars(txt)
        matches_codigos == FindIter(patron_codigos, s, 1, TRUE)
    IN  { Normalizar(Join(Lower(Strip(Group(matches_codigos[m], s, 2)))),
                     Group(matches_codigos[m], s, 2)) :
            m \in { n \in 1..Len(matches_codigos) :
                      Aceptado(Join(Lower(Strip(Group(matches_codigos[n], s, 2))))) } }

\* the first group, up to match.lastindex, whose text is not blank; <<>> for None
GrupoPais(m, s) ==
    LET li == LastIndex(m)
        ok == { i \in 1..li : Group(m, s, i) # <<>> /\ Strip(Group(m, s, i)) # <<>> }
    IN  IF ok = {} THEN <<>>
        ELSE Group(m, s, CHOOSE i \in ok : \A j \in ok : i <= j)

\* the separator without the connective " y "
SeparadorSinY ==
    Alt(<<Cls({",", ";"}), Cat(<<Cls(Whitespace), Str("and"), Cls(Whitespace)>>)>>)

\* [,;]|\sy\s|\sand\s  (re.split is called without flags)
Separador ==
    Alt(<<Cls({",", ";"}), Cat(<<Cls(Whitespace), Chr("y"), Cls(Whitespace)>>),
          Cat(<<Cls(Whitespace), Str("and"), Cls(Whitespace)>>)>>)

\* re.split: the pieces of cs between the matches of Separador
RECURSIVE Pieces(_, _, _)
Pieces(cs, ms, from) ==
    IF ms = <<>> THEN <<SubSeq(cs, from, Len(cs))>>
    ELSE <<SubSeq(cs, from, Head(ms).start - 1)>> \o Pieces(cs, Tail(ms), Head(ms).pos)

Split(cs) == Pieces(cs, FindIter(Separador, cs, 1, FALSE), 1)

\* the labels one captured candidate contributes
OrigenesGrupo(grupo_pais) ==
    LET paises_raw == Split(grupo_pais)
        limpio(pais) == Join(Lower(Strip(QuitarNumeros(pais))))
    IN  { lab \in { Normalizar(limpio(paises_raw[p]), paises_raw[p]) :
                      p \in { q \in 1..Len(paises_raw) : Aceptado(limpio(paises_raw[q])) } } :
            Len(lab) > 2 }

\* the labels the matches of one pattern contribute
OrigenesPatron(patron, txt) ==
    LET s == Chars(txt)
        ms == FindIter(patron, s, 1, TRUE)
    IN  UNION { OrigenesGrupo(GrupoPais(ms[m], s)) :
                  m \in { n \in 1..Len(ms) : GrupoPais(ms[n], s) # <<>> } }

detectar_origenes(txt) ==
    OrigenesCodigos(txt) \cup
    UNION { OrigenesPatron(patrones_origen[k], txt) : k \in 1..NumPatrones }

----------------------------------------------------------------------------
(* Specification SpecDetectar: one call of detectar_origenes                *)

\* the texts of the scenarios, and one text or more for each pattern
Escenarios ==
    {"Producto de España y Portugal", "UE Agriculture / Non-EU Agriculture",
     "Origen: Italia, Grecia y España", "I: ITALY, S: SPAIN", "EU: ITALY",
     "Origen: Marruecos", "Contenido neto: 1L", "lo que es", "Origen: UE",
     "Countries identified in the date code: USA1, GERMANY 2", "", "\n",
     "Product of Italy", "Aceite de oliva de España", "Made in Spain",
     "Mezcla de aceites de la Unión Europea", "Mezcla de aceites de España y Túnez",
     "Aceites de distintos orígenes: Grecia, Turquía", "Distributed by Kroger in Chile",
     "Fuera de la UE", "EU Agriculture"}

Gentilicios ==
    {"español", "española", "italiano", "italiana", "griego", "griega", "tunecino",
     "marroquí", "portugués", "portuguesa", "turco"}

\* lists of up to MaxPaises tokens after a prefix
MaxPaises == 2
Prefijos == {"Origen: ", "Producto de ", "Countries identified in the date code: "}
Tokens == {"Italia", "España", "USA1", "que"}
Conectores == {", ", " y "}

RECURSIVE Listas(_)
Listas(n) ==
    IF n = 1 THEN Tokens
    ELSE {l \o c \o t : l \in Listas(n - 1), c \in Conectores, t \in Tokens}

Textos ==
    Escenarios
    \cup {"Aceite de oliva virgen extra " \o d : d \in Gentilicios}
    \cup {p \o l : p \in Prefijos, l \in UNION {Listas(n) : n \in 1..MaxPaises}}

\* the text of every capture group of every match, "" for a group that is not set
Grupos(patron, s) ==
    LET ms == FindIter(patron, s, 1, TRUE)
    IN  [m \in 1..Len(ms) |-> [n \in 1..MaxGroups |-> Join(Group(ms[m], s, n))]]

IdleDetectar == texto = "" /\ origenes = {} /\ i_patron = 0 /\ matches = <<>>
IdleCodigo == nombre_archivo = "" /\ codigo = ""
IdleCarpeta ==
    /\ existe = FALSE /\ case_sensitive = TRUE /\ carpeta = {} /\ archivos_pdf = <<>>
    /\ i_pdf = 0 /\ texto_normal = "" /\ texto_ocr = "" /\ resultados = <<>>
    /\ avisos = <<>> /\ csv = <<>>

InitDetectar ==
    /\ pc = "codigos"
    /\ texto \in Textos
    /\ origenes = {} /\ i_patron = 0 /\ matches = <<>>
    /\ IdleCodigo /\ IdleCarpeta

\* lines 198-205: the scan of the "CODE: COUNTRYNAME" pattern
BuscarCodigos ==
    /\ pc = "codigos"
    /\ origenes' = origenes \cup OrigenesCodigos(texto)
    /\ i_patron' = 1
    /\ pc' = "patrones"
    /\ UNCHANGED <<texto, matches, varsCodigo, varsCarpeta>>

\* lines 208-235: one iteration of the loop over patrones_origen; the return
\* of line 237 follows the last one
BuscarPatron ==
    /\ pc = "patrones"
    /\ i_patron <= NumPatrones
    /\ matches' = Grupos(patrones_origen[i_patron], Chars(texto))
    /\ origenes' = origenes \cup OrigenesPatron(patrones_origen[i_patron], texto)
    /\ i_patron' = i_patron + 1
    /\ pc' = IF i_patron = NumPatrones THEN "fin" ELSE "patrones"
    /\ UNCHANGED <<texto, varsCodigo, varsCarpeta>>

NextDetectar == BuscarCodigos \/ BuscarPatron

SpecDetectar == InitDetectar /\ [][NextDetectar]_vars

----------------------------------------------------------------------------
(* Properties of detectar_origenes (checked under SpecDetectar)            *)

Devuelto(t) == pc = "fin" /\ texto = t

\* C1: detectar_origenes("Producto de España y Portugal") returns exactly
\* {"España", "Portugal"}.
C1_ProductoDeDosPaises ==
    Devuelto("Producto de España y Portugal") => origenes = {"España", "Portugal"}

\* C2: detectar_origenes("UE Agriculture / Non-EU Agriculture") contains both
\* "UE (Unión Europea)" and "No UE".
C2_UEyNoUE ==
    Devuelto("UE Agriculture / Non-EU Agriculture")
        => {"UE (Unión Europea)", "No UE"} \subseteq origenes

\* the label of the country each adjectival form belongs to
EtiquetaGentilicio ==
    ("español" :> "España") @@ ("española" :> "España") @@ ("italiano" :> "Italia") @@
    ("italiana" :> "Italia") @@ ("griego" :> "Grecia") @@ ("griega" :> "Grecia") @@
    ("tunecino" :> "Túnez") @@ ("marroquí" :> "Marruecos") @@ ("portugués" :> "Portugal") @@
    ("portuguesa" :> "Portugal") @@ ("turco" :> "Turquía")

\* C3: for every adjectival key d, detectar_origenes("Aceite de oliva virgen
\* extra " + d) includes the label of d's country.
C3_Gentilicios ==
    \A d \in Gentilicios :
        Devuelto("Aceite de oliva virgen extra " \o d) => EtiquetaGentilicio[d] \in origenes

TextoC4 == "Origen: Italia, Grecia y España"

\* C4: detectar_origenes("Origen: Italia, Grecia y España") returns exactly
\* {"Italia", "Grecia", "España"}: nothing is detected before the "Origen:"
\* pattern (the third) is scanned, its one match captures the whole list, the
\* three labels come from it, and no later pattern adds another label.
C4_OrigenListaDeTres ==
    texto = TextoC4 =>
        /\ i_patron <= 3 => origenes = {}
        /\ i_patron = 4 => matches = <<<<"Italia, Grecia y España", "">>>>
        /\ i_patron >= 4 => origenes = {"Italia", "Grecia", "España"}
        /\ pc = "fin" => origenes = {"Italia", "Grecia", "España"}

C4_Witness == Devuelto(TextoC4) /\ Cardinality(origenes) = 3

\* C8: every match of every pattern of the general scan has at most one
\* capture group with non-empty text, and "EU: ITALY" yields only "Italia".
C8_UnSoloGrupo ==
    /\ \A m \in 1..Len(matches) :
          Cardinality({n \in 1..MaxGroups : matches[m][n] # ""}) <= 1
    /\ Devuelto("EU: ITALY") => origenes = {"Italia"}

Valores(f) == {f[x] : x \in DOMAIN f}

\* C9: every label returned is a value of normalizacion_paises or the
\* title-cased form of an entry of paises_validos, and contains no digit.
C9_EtiquetasCanonicas ==
    pc = "fin" =>
        \A lab \in origenes :
            /\ lab \in Valores(normalizacion_paises)
                        \cup {Join(Title(Chars(p))) : p \in paises_validos}
            /\ CharSet(lab) \cap Digits = {}

\* w occurs in txt as a whole word: not preceded and not followed by a letter
PalabraEntera(w, txt) ==
    LET cs == Lower(Chars(txt))
        ws == Lower(Chars(w))
    IN  \E a \in 1..Len(cs) :
            /\ a + Len(ws) - 1 <= Len(cs)
            /\ SubSeq(cs, a, a + Len(ws) - 1) = ws
            /\ a = 1 \/ ~IsCased(cs[a - 1])
            /\ a + Len(ws) - 1 = Len(cs) \/ ~IsCased(cs[a + Len(ws)])

\* C10: "UE (Unión Europea)" is returned only if the text has "UE", "EU",
\* "Unión Europea" or "EU Agriculture" as a whole word, and
\* "Origen: Marruecos" returns exactly {"Marruecos"}.
C10_UESoloPalabraEntera ==
    /\ pc = "fin" /\ "UE (Unión Europea)" \in origenes
          => \E w \in {"UE", "EU", "Unión Europea", "EU Agriculture"} : PalabraEntera(w, texto)
    /\ Devuelto("Origen: Marruecos") => origenes = {"Marruecos"}

----------------------------------------------------------------------------
(* extraer_codigo_archivo                                                  *)

\* (4\d{5})
PatronCodigoArchivo == Grp(1, Cat(<<Chr("4"), Times(Cls(Digits), 5)>>))

\* re.match instead of re.search: the code only at the start of the name
CodigoAlInicio(nombre) ==
    LET s == Chars(nombre)
        ms == MatchAt(PatronCodigoArchivo, s, 1, FALSE)
    IN  IF ms # <<>> THEN Join(Group(ms[1], s, 1)) ELSE nombre

\* re.search(r'(4\d{5})', nombre_archivo): the first match scanning from the left
extraer_codigo_archivo(nombre) ==
    LET s == Chars(nombre)
        ms == FindIter(PatronCodigoArchivo, s, 1, FALSE)
    IN  IF ms # <<>> THEN Join(Group(ms[1], s, 1)) ELSE nombre

(* Specification SpecCodigo: one call of extraer_codigo_archivo            *)

MaxNombre == 7
NombreChars == {"4", "0", "x"}

RECURSIVE Cadenas(_)
Cadenas(n) == IF n = 0 THEN {""} ELSE {c \o w : c \in NombreChars, w \in Cadenas(n - 1)}

Nombres ==
    {"etiqueta_401234_v2.pdf", "etiqueta_generica.pdf"}
    \cup UNION {Cadenas(n) : n \in 0..MaxNombre}

InitCodigo ==
    /\ pc = "extraer"
    /\ nombre_archivo \in Nombres
    /\ codigo = ""
    /\ IdleDetectar /\ IdleCarpeta

ExtraerCodigo ==
    /\ pc = "extraer"
    /\ codigo' = extraer_codigo_archivo(nombre_archivo)
    /\ pc' = "fin"
    /\ UNCHANGED <<nombre_archivo, varsDetectar, varsCarpeta>>

NextCodigo == ExtraerCodigo

SpecCodigo == InitCodigo /\ [][NextCodigo]_vars

\* the positions of nombre where the digit 4 is followed by five digits
PosicionesCodigo(nombre) ==
    LET cs == Chars(nombre)
    IN  {a \in 1..(Len(cs) - 5) : cs[a] = "4" /\ \A d \in 1..5 : cs[a + d] \in Digits}

Minimo(S) == CHOOSE a \in S : \A b \in S : a <= b

\* C7: extraer_codigo_archivo returns the leftmost substring made of a 4 and
\* five digits when the name has one, and the name itself otherwise; the
\* result is always a 6-digit string starting with 4 or the whole input.
C7_CodigoMasALaIzquierda ==
    pc = "fin" =>
        LET pos == PosicionesCodigo(nombre_archivo)
        IN  /\ pos # {} =>
                codigo = SubSeq(nombre_archivo, Minimo(pos), Minimo(pos) + 5)
            /\ pos = {} => codigo = nombre_archivo
            /\ \/ codigo = nombre_archivo
               \/ /\ Len(codigo) = 6
                  /\ SubSeq(codigo, 1, 1) = "4"
                  /\ CharSet(codigo) \subseteq Digits
            /\ nombre_archivo = "etiqueta_401234_v2.pdf" => codigo = "401234"
            /\ nombre_archivo = "etiqueta_generica.pdf" => codigo = nombre_archivo

C7_Witness ==
    /\ pc = "fin"
    /\ Cardinality(PosicionesCodigo(nombre_archivo)) >= 2
    /\ codigo # nombre_archivo
    /\ codigo = SubSeq(nombre_archivo, Minimo(PosicionesCodigo(nombre_archivo)),
                       Minimo(PosicionesCodigo(nombre_archivo)) + 5)

----------------------------------------------------------------------------
(* Ordering: sorted() on str and on Path                                   *)

\* the characters in code point order
CodeOrder == "\n (),-./0123456789:;ABCDEFGHIJKLMNOPQRSTUVWXYZ_abcdefghijklmnopqrstuvwxyz|ÁÉÍÑÓÚáéíñóú"
Ord(c) == IndexIn(c, CodeOrder)

RECURSIVE SeqLess(_, _)
SeqLess(a, b) ==
    IF b = <<>> THEN FALSE
    ELSE IF a = <<>> THEN TRUE
    ELSE IF Head(a) = Head(b) THEN SeqLess(Tail(a), Tail(b))
    ELSE Ord(Head(a)) < Ord(Head(b))

\* str.__lt__
StrLess(a, b) == SeqLess(Chars(a), Chars(b))

\* Path.__lt__: by name, case-folded where the platform is case-insensitive
PathLess(a, b, cs) ==
    IF cs THEN StrLess(a, b) ELSE SeqLess(Lower(Chars(a)), Lower(Chars(b)))

\* sorted(origenes): the set of strings S in ascending order
RECURSIVE SortStr(_)
SortStr(S) ==
    IF S = {} THEN <<>>
    ELSE LET min == CHOOSE a \in S : \A b \in S \ {a} : StrLess(a, b)
         IN  <<min>> \o SortStr(S \ {min})

\* ", ".join(seq)
RECURSIVE JoinComma(_)
JoinComma(seq) ==
    IF seq = <<>> THEN ""
    ELSE IF Len(seq) = 1 THEN seq[1]
    ELSE seq[1] \o ", " \o JoinComma(Tail(seq))

----------------------------------------------------------------------------
(* Text extraction                                                         *)

\* re.sub(r'\|:', 'I:', texto) then re.sub(r'(?<= )l:', 'I:', texto): both
\* replace one character and keep the colon
limpiar_texto_ocr(txt) ==
    LET cs == Chars(txt)
        t1 == [a \in 1..Len(cs) |->
                 IF cs[a] = "|" /\ a < Len(cs) /\ cs[a + 1] = ":" THEN "I" ELSE cs[a]]
        t2 == [a \in 1..Len(t1) |->
                 IF t1[a] = "l" /\ a < Len(t1) /\ t1[a + 1] = ":" /\ a > 1 /\ t1[a - 1] = " "
                 THEN "I" ELSE t1[a]]
    IN  Join(t2)

\* the files a folder may hold: for each, the text extract_text gives for
\* each page and the text image_to_string gives for each page image
Documento ==
    ("b_401234.pdf" :> [paginas |-> <<"Origen: Italia", "Producto de Grecia">>,
                        imagenes |-> <<"|: ITALY", "">>]) @@
    ("A.PDF" :> [paginas |-> <<"">>, imagenes |-> <<"Kroger l: SPAIN">>]) @@
    ("c.pdf" :> [paginas |-> <<"Contenido neto: 1L">>, imagenes |-> <<"">>]) @@
    ("d.Pdf" :> [paginas |-> <<"Made in Chile">>, imagenes |-> <<"">>]) @@
    ("notas.txt" :> [paginas |-> <<>>, imagenes |-> <<>>])

Archivos == DOMAIN Documento

\* lines 122-125 and 162-172: the text accumulated from the first n pages
RECURSIVE Acumular(_, _)
Acumular(textos, n) ==
    IF n = 0 THEN ""
    ELSE Acumular(textos, n - 1) \o (IF textos[n] # "" THEN textos[n] \o "\n" ELSE "")

----------------------------------------------------------------------------
(* Specification SpecCarpeta: one run of ejecutar                          *)

\* the most files the folder holds, and the most extraction failures in a run
MaxArchivos == 2
MaxFallos == 2

\* the part of a file name after its last dot
RECURSIVE Extension(_)
Extension(cs) ==
    IF cs = <<>> THEN <<>>
    ELSE IF \E a \in 1..Len(cs) : cs[a] = "." THEN Extension(Tail(cs))
    ELSE cs

\* Path.glob("*." + ext): the names that end in "." + ext, compared
\* case-sensitively or not as the platform does
Glob(dir, ext, cs) ==
    {f \in dir : /\ \E a \in 1..Len(f) : SubSeq(f, a, a) = "."
                 /\ IF cs THEN Extension(Chars(f)) = Chars(ext)
                    ELSE Lower(Extension(Chars(f))) = Lower(Chars(ext))}

\* the names of S in ascending path order
RECURSIVE SortPaths(_, _)
SortPaths(S, cs) ==
    IF S = {} THEN <<>>
    ELSE LET min == CHOOSE a \in S : \A b \in S \ {a} : PathLess(a, b, cs)
         IN  <<min>> \o SortPaths(S \ {min}, cs)

\* sorted(list(glob("*.pdf")) + list(glob("*.PDF"))): a name both listings
\* hold appears twice
Listado(dir, cs) ==
    LET minusculas == Glob(dir, "pdf", cs)
        mayusculas == Glob(dir, "PDF", cs)
        orden == SortPaths(minusculas \cup mayusculas, cs)
    IN  Flatten([a \in 1..Len(orden) |->
                    IF orden[a] \in minusculas /\ orden[a] \in mayusculas
                    THEN <<orden[a], orden[a]>> ELSE <<orden[a]>>])

Encabezado == <<"Nombre_Archivo", "Código", "Países_Origen">>

\* line 295
FormatearOrigenes(labs) == IF labs # {} THEN JoinComma(SortStr(labs)) ELSE "No detectado"

InitCarpeta ==
    /\ pc = "procesar_carpeta"
    /\ existe \in BOOLEAN
    /\ case_sensitive \in BOOLEAN
    /\ carpeta \in SUBSET Archivos
    /\ Cardinality(carpeta) <= MaxArchivos
    /\ ~existe => carpeta = {}
    /\ archivos_pdf = <<>> /\ i_pdf = 0 /\ texto_normal = "" /\ texto_ocr = ""
    /\ resultados = <<>> /\ avisos = <<>> /\ csv = <<>>
    /\ IdleDetectar /\ IdleCodigo

\* lines 262-273: the folder check and the listing
Listar ==
    /\ pc = "procesar_carpeta"
    /\ IF ~existe \/ Listado(carpeta, case_sensitive) = <<>>
       THEN /\ pc' = "generar_csv"
            /\ UNCHANGED <<archivos_pdf, i_pdf>>
       ELSE /\ archivos_pdf' = Listado(carpeta, case_sensitive)
            /\ i_pdf' = 1
            /\ pc' = "extraer_texto_pdf"
    /\ UNCHANGED <<existe, case_sensitive, carpeta, texto_normal, texto_ocr, resultados,
                   avisos, csv, varsDetectar, varsCodigo>>

\* the exception of extraer_texto_ocr is not caught
ExtraerTextoOcrSinTry ==
    /\ pc = "extraer_texto_ocr"
    /\ LET doc == Documento[archivos_pdf[i_pdf]]
       IN  \E n \in 0..Len(doc.imagenes) :
              /\ n < Len(doc.imagenes) => Len(avisos) < MaxFallos
              /\ texto_ocr' = Acumular([a \in 1..Len(doc.imagenes) |->
                                           limpiar_texto_ocr(doc.imagenes[a])], n)
              /\ pc' = IF n < Len(doc.imagenes) THEN "excepcion" ELSE "analizar"
              /\ UNCHANGED avisos
    /\ UNCHANGED <<existe, case_sensitive, carpeta, archivos_pdf, i_pdf, texto_normal,
                   resultados, csv, varsDetectar, varsCodigo>>

\* lines 279 and 109-129: the first n pages are read; with n below the page
\* count an exception is raised then, caught and reported
ExtraerTextoPdf ==
    /\ pc = "extraer_texto_pdf"
    /\ LET doc == Documento[archivos_pdf[i_pdf]]
       IN  \E n \in 0..Len(doc.paginas) :
              /\ n < Len(doc.paginas) => Len(avisos) < MaxFallos
              /\ texto_normal' = Acumular(doc.paginas, n)
              /\ avisos' = IF n < Len(doc.paginas)
                           THEN Append(avisos, <<"Error al leer", archivos_pdf[i_pdf]>>)
                           ELSE avisos
    /\ pc' = "extraer_texto_ocr"
    /\ UNCHANGED <<existe, case_sensitive, carpeta, archivos_pdf, i_pdf, texto_ocr,
                   resultados, csv, varsDetectar, varsCodigo>>

\* lines 283 and 149-176: the same for the page images, each text cleaned
ExtraerTextoOcr ==
    /\ pc = "extraer_texto_ocr"
    /\ LET doc == Documento[archivos_pdf[i_pdf]]
       IN  \E n \in 0..Len(doc.imagenes) :
              /\ n < Len(doc.imagenes) => Len(avisos) < MaxFallos
              /\ texto_ocr' = Acumular([a \in 1..Len(doc.imagenes) |->
                                           limpiar_texto_ocr(doc.imagenes[a])], n)
              /\ avisos' = IF n < Len(doc.imagenes)
                           THEN Append(avisos, <<"Error OCR en", archivos_pdf[i_pdf]>>)
                           ELSE avisos
    /\ pc' = "analizar"
    /\ UNCHANGED <<existe, case_sensitive, carpeta, archivos_pdf, i_pdf, texto_normal,
                   resultados, csv, varsDetectar, varsCodigo>>

\* lines 286-300: detection, code, formatting and the record; then the next
\* pdf_path, or the return of line 302
Analizar ==
    /\ pc = "analizar"
    /\ LET texto_completo == texto_normal \o "\n" \o texto_ocr
           nombre == archivos_pdf[i_pdf]
       IN  resultados' = Append(resultados,
                                <<nombre, extraer_codigo_archivo(nombre),
                                  FormatearOrigenes(detectar_origenes(texto_completo))>>)
    /\ IF i_pdf < Len(archivos_pdf)
       THEN i_pdf' = i_pdf + 1 /\ pc' = "extraer_texto_pdf"
       ELSE i_pdf' = i_pdf /\ pc' = "generar_csv"
    /\ UNCHANGED <<existe, case_sensitive, carpeta, archivos_pdf, texto_normal, texto_ocr,
                   avisos, csv, varsDetectar, varsCodigo>>

\* lines 304-326 and 336-340
GenerarCsv ==
    /\ pc = "generar_csv"
    /\ csv' = IF resultados = <<>> THEN csv ELSE Append(csv, <<Encabezado>> \o resultados)
    /\ pc' = "fin"
    /\ UNCHANGED <<existe, case_sensitive, carpeta, archivos_pdf, i_pdf, texto_normal,
                   texto_ocr, resultados, avisos, varsDetectar, varsCodigo>>

NextCarpeta == Listar \/ ExtraerTextoPdf \/ ExtraerTextoOcr \/ Analizar \/ GenerarCsv

SpecCarpeta == InitCarpeta /\ [][NextCarpeta]_vars

----------------------------------------------------------------------------
(* Properties of the batch run (checked under SpecCarpeta)                 *)

Ultimo(seq) == seq[Len(seq)]

\* every entry of the listing has its record, in the order of the listing
Completo ==
    /\ Len(resultados) = Len(archivos_pdf)
    /\ \A j \in 1..Len(archivos_pdf) : resultados[j][1] = archivos_pdf[j]

EsPdf(f) == Lower(Extension(Chars(f))) = Chars("pdf")

\* C6: every run of ejecutar whose input directory exists writes exactly one
\* table: the header, then exactly one row per PDF document of the folder in
\* ascending path order, each (file name, extracted code, origins string).
C6_UnaTablaPorEjecucion ==
    pc = "fin" /\ existe =>
        /\ Len(csv) = 1
        /\ csv[1][1] = Encabezado
        /\ LET pdfs == SortPaths({f \in carpeta : EsPdf(f)}, case_sensitive)
           IN  /\ Len(csv[1]) = 1 + Len(pdfs)
               /\ \A j \in 1..Len(pdfs) :
                     /\ csv[1][j + 1][1] = pdfs[j]
                     /\ csv[1][j + 1][2] = extraer_codigo_archivo(pdfs[j])
                     /\ csv[1][j + 1][3] # ""

====
